---- MODULE Spec2Model ----
(***************************************************************************)
(* A model of the logger of http_server/src/Logger.{h,cpp}: the Manager    *)
(* with its mutex and worker vector, the Workers with their thresholds and *)
(* sinks, the Line objects of LOG statements, and the Init guards.         *)
(*                                                                         *)
(* Threads run addWorker, removeWorker and LOG statements.  Every step     *)
(* that another thread can observe is an action of its own: taking the     *)
(* mutex, the critical section of addWorker / removeWorker, each           *)
(* Worker::log call of a dispatch (split where the body is stripped).      *)
(***************************************************************************)
EXTENDS Integers, Sequences, FiniteSets, TLC

\* ---------------------------------------------------------------- bounds
\* the number of calls (addWorker, removeWorker, LOG statements) of a run
MaxOps == 3
\* the number of Init guards constructed in a run
MaxGuards == 3
\* the length of the messages of the events dispatched in SpecWorker
MaxLen == 5

\* ------------------------------------------------------- program constants
\* enum Level, Logger.h:14-21
CRITICAL == 0
ERROR == 1
WARNING == 2
INFO == 3
DEBUG == 4
TRACE == 5
Levels == CRITICAL..TRACE

\* ------------------------------------------------------------ input sets
Threads == {"t1", "t2"}
NoThread == "none"
\* The destination identities: "" is std::cout, the others are file paths.
Console == ""
Paths == {Console, "a", "b"}
\* the identities the calls of a run name
CallPaths == {Console, "a"}
\* thresholds passed to addConsole / addFile in the concurrent specification
AddLevels == {WARNING, DEBUG}
\* severities of the LOG statements of the callers
UserLevels == {INFO}
\* Characters are abstracted to two classes: the newline and any other one.
NL == "LF"
CH == "x"
\* The LOG statements of the callers: each is the list of the values it
\* streams, one per operator<<, in the order of the statement.
Statements == {<<>>, <<<<CH>>, <<NL>>>>}
Guards == {"g1", "g2"}

NoLine == [id |-> 0, level |-> 0, site |-> "", msg |-> <<>>]
NoOp == [kind |-> "none", path |-> "", level |-> 0, id |-> 0, fail |-> "none",
         args |-> <<>>, k |-> 0]

VARIABLES
  m_workers,   \* Manager::m_workers: sequence of [path, level, stream]
  m_mutex,     \* Manager::m_mutex: the thread that holds it, or NoThread
  coutGood,    \* std::cout.good()
  out,         \* per destination, what was written to its stream, in order
  line,        \* per thread, the live Line object (NoLine when there is none)
  pc,          \* per thread, where it is
  op,          \* per thread, the call it is in
  idx,         \* per thread, the position of Manager::log's loop
  nOps,        \* number of calls started (each call owns at most one event)
  calls,       \* per event, how often Manager::log was called for it
  crash,       \* "none", or why the process was terminated
  m_ref_count, \* per Init guard, its m_ref_count member (Logger.h:132)
  guardLive,   \* per Init guard, whether the object exists
  nCtor,       \* how often an Init guard constructed the Manager
  nDtor,       \* how often an Init guard destroyed the Manager
  alive        \* whether the object `manager` is constructed

vars == <<m_workers, m_mutex, coutGood, out, line, pc, op, idx, nOps, calls,
          crash, m_ref_count, guardLive, nCtor, nDtor, alive>>
lifeVars == <<m_ref_count, guardLive, nCtor, nDtor, alive>>

\* ------------------------------------------------------------- Worker
\* Worker::good, Logger.h:66-68
Good(w) ==
  (w.path = Console /\ coutGood) \/ (w.stream = "good")

\* Worker::log with >= for > at Logger.cpp:129
FilteredOffByOne(w, l) ==
  ~Good(w) \/ l.level >= w.level

\* the guard of Worker::log, Logger.cpp:129: the event is written iff this is false
Filtered(w, l) ==
  ~Good(w) \/ l.level > w.level

\* Logger.cpp:134: the loop reads msg.back() of an empty string iff the message
\* is empty or holds newlines only
RECURSIVE OnlyNewlines(_)
OnlyNewlines(msg) ==
  IF Len(msg) = 0 THEN TRUE
  ELSE msg[Len(msg)] = NL /\ OnlyNewlines(SubSeq(msg, 1, Len(msg) - 1))

\* Logger.cpp:134 on a message with a non-newline character
RECURSIVE Strip(_)
Strip(msg) ==
  IF Len(msg) > 0 /\ msg[Len(msg)] = NL
  THEN Strip(SubSeq(msg, 1, Len(msg) - 1))
  ELSE msg

\* the separator block of Logger.cpp:81-84
Separator ==
  [ev |-> 0, sev |-> INFO, site |-> "separator", body |-> <<>>, done |-> TRUE,
   text |-> <<NL, "RULE", NL, "HEADER", NL>>]

\* a constructor that writes no separator
WriteSeparatorSkipped(seq) == seq

\* the file after Logger.cpp:81-84: the block is appended (std::ios::app)
WriteSeparator(seq) == Append(seq, Separator)

\* what Logger.cpp:130-132 puts on the stream: the entry is open until its "\n"
\* (text holds the characters of an entry once it is ended)
Prefix(l) ==
  [ev |-> l.id, sev |-> l.level, site |-> l.site, body |-> <<>>, done |-> FALSE,
   text |-> <<>>]

\* std::string::find('\n', start) of Logger.cpp:137-138, with end = msg.size()
\* when there is none; positions count from 0
RECURSIVE FindNewline(_, _)
FindNewline(msg, start) ==
  IF start >= Len(msg) THEN Len(msg)
  ELSE IF msg[start + 1] = NL THEN start
  ELSE FindNewline(msg, start + 1)

\* std::string::substr(pos, n): at most n characters from position pos
Substr(msg, pos, n) ==
  SubSeq(msg, pos + 1, IF pos + n > Len(msg) THEN Len(msg) ELSE pos + n)

\* a loop that writes the lines without their newline characters
RECURSIVE BodyFromDropsNewline(_, _)
BodyFromDropsNewline(msg, start) ==
  IF start >= Len(msg) THEN <<>>
  ELSE LET end == FindNewline(msg, start) IN
       (IF start > 0 THEN <<"INDENT">> ELSE <<>>)
         \o Substr(msg, start, end - start)
         \o BodyFromDropsNewline(msg, end + 1)

\* the loop of Logger.cpp:135-142 from position start: "INDENT" stands for the
\* TIME_FMT_WIDTH + LEVEL_FMT_WIDTH + 3 spaces and the " -> " of line 139
RECURSIVE BodyFrom(_, _)
BodyFrom(msg, start) ==
  IF start >= Len(msg) THEN <<>>
  ELSE LET end == FindNewline(msg, start) IN
       (IF start > 0 THEN <<"INDENT">> ELSE <<>>)
         \o Substr(msg, start, end - start + 1)
         \o BodyFrom(msg, end + 1)

\* all that Worker::log writes for an event whose message, after line 134, is
\* msg (Logger.cpp:130-144): "COLOR" and "RESET" are the escape sequences of
\* the console, "PREFIX" the timestamp, level tag and location of lines 131-132
EntryText(w, msg) ==
  (IF w.path = Console THEN <<"COLOR">> ELSE <<>>)
    \o <<"PREFIX">>
    \o BodyFrom(msg, 0)
    \o (IF w.path = Console THEN <<"RESET">> ELSE <<>>)
    \o <<NL>>

\* ------------------------------------------------------------- Line
\* Line::Line, Logger.h:158-162
NewLine(id, level, site) ==
  [id |-> id, level |-> level, site |-> site, msg |-> <<>>]

\* an operator<< that puts the value in front of the text
StreamPrepends(l, tok) ==
  [l EXCEPT !.msg = tok \o l.msg]

\* Line::operator<<, Logger.h:178-181
Stream(l, tok) ==
  [l EXCEPT !.msg = l.msg \o tok]

\* the text of the logger's own LOG statements: one line, no newline
OwnText == <<CH>>

\* a LOG statement of the logger that always logs at WARNING
OwnLineAsWarning(id, level, site) ==
  Stream(NewLine(id, WARNING, site), OwnText)

\* a LOG statement of the logger itself: constructed, streamed into, and at the
\* end of the statement destroyed, which calls manager.log (Logger.h:55-56, 167)
OwnLine(id, level, site) ==
  Stream(NewLine(id, level, site), OwnText)

\* ------------------------------------------------------------- helpers
\* a thread runs while the process was not terminated
Running(t) == crash = "none" /\ alive /\ t \in Threads

\* The threads are interchangeable: the first call of a run is t1's.
MayCall(t) == Running(t) /\ pc[t] = "idle" /\ nOps < MaxOps /\ (nOps = 0 => t = "t1")

\* a lock that does not wait
CanLockNoWait(t) == t \in Threads

\* std::mutex::lock returns only when no thread holds the mutex
CanLock(t) == m_mutex = NoThread

\* a setLevel that keeps the old threshold
SetLevelKeeps(w, level) == w

\* a setLevel that also opens the stream again
SetLevelReopens(w, level) ==
  [w EXCEPT !.level = level, !.stream = IF @ = "bad" THEN "good" ELSE @]

\* Worker::setLevel, Logger.h:70
SetLevel(w, level) == [w EXCEPT !.level = level]

\* std::vector::pop_back
PopBack(ws) == SubSeq(ws, 1, Len(ws) - 1)

\* position of the first worker with this path, 0 if none (the loops of
\* Logger.cpp:99-104 and 115-120)
RECURSIVE FindFrom(_, _, _)
FindFrom(ws, path, i) ==
  IF i > Len(ws) THEN 0
  ELSE IF ws[i].path = path THEN i
  ELSE FindFrom(ws, path, i + 1)
\* a lookup that does not see the first worker
FindSkipsFirst(ws, path) == FindFrom(ws, path, 2)

\* the position of the worker the loops stop at
Find(ws, path) == FindFrom(ws, path, 1)

\* an erase that moves the last element into position i
EraseSwapsLast(ws, i) ==
  IF i = Len(ws) THEN SubSeq(ws, 1, Len(ws) - 1)
  ELSE [SubSeq(ws, 1, Len(ws) - 1) EXCEPT ![i] = ws[Len(ws)]]

\* std::vector::erase of position i
Erase(ws, i) ==
  SubSeq(ws, 1, i - 1) \o SubSeq(ws, i + 1, Len(ws))

\* ------------------------------------------------------------- Init
Init ==
  /\ m_workers = <<>>
  /\ m_mutex = NoThread
  /\ coutGood \in BOOLEAN
  /\ out = [p \in Paths |-> <<>>]
  /\ line = [t \in Threads |-> NoLine]
  /\ pc = [t \in Threads |-> "idle"]
  /\ op = [t \in Threads |-> NoOp]
  /\ idx = [t \in Threads |-> 0]
  /\ nOps = 0
  /\ calls = [e \in 1..MaxOps |-> 0]
  /\ crash = "none"
  /\ m_ref_count = [g \in Guards |-> 0]
  /\ guardLive = [g \in Guards |-> FALSE]
  /\ nCtor = 0
  /\ nDtor = 0
  /\ alive = TRUE

\* ------------------------------------------------------------- addWorker
\* a call of addConsole / addFile, Logger.cpp:25, 27
CallAddWorker(t, path, level) ==
  /\ MayCall(t)
  /\ nOps' = nOps + 1
  /\ op' = [op EXCEPT ![t] = [kind |-> "add", path |-> path, level |-> level,
                               id |-> nOps + 1, fail |-> "none", args |-> <<>>, k |-> 0]]
  /\ pc' = [pc EXCEPT ![t] = "add_lock"]
  /\ UNCHANGED <<m_workers, m_mutex, coutGood, out, line, idx, calls, crash>>
  /\ UNCHANGED lifeVars

\* Logger.cpp:98
AddLock(t) ==
  /\ Running(t) /\ pc[t] = "add_lock" /\ CanLock(t)
  /\ m_mutex' = t
  /\ pc' = [pc EXCEPT ![t] = "add_body"]
  /\ UNCHANGED <<m_workers, coutGood, out, line, op, idx, nOps, calls, crash>>
  /\ UNCHANGED lifeVars

\* Logger.cpp:99-104: the identity is registered; its threshold is replaced and
\* the call returns (the lock_guard releases the mutex)
AddExisting(t) ==
  /\ Running(t) /\ pc[t] = "add_body"
  /\ Find(m_workers, op[t].path) # 0
  /\ LET i == Find(m_workers, op[t].path) IN
       m_workers' = [m_workers EXCEPT ![i] = SetLevel(m_workers[i], op[t].level)]
  /\ m_mutex' = NoThread
  /\ pc' = [pc EXCEPT ![t] = "idle"]
  /\ op' = [op EXCEPT ![t] = NoOp]
  /\ UNCHANGED <<coutGood, out, line, idx, nOps, calls, crash>>
  /\ UNCHANGED lifeVars

\* Logger.cpp:105-108 for the console: Worker::Worker returns at line 73, the
\* worker is popped again if std::cout is not good, the mutex is released and
\* the LOG(DEBUG) statement of line 108 calls manager.log
AddConsole(t) ==
  /\ Running(t) /\ pc[t] = "add_body"
  /\ Find(m_workers, op[t].path) = 0
  /\ op[t].path = Console
  /\ LET w == [path |-> Console, level |-> op[t].level, stream |-> "null"]
         ws == Append(m_workers, w)
     IN m_workers' = IF ~Good(w) THEN PopBack(ws) ELSE ws
  /\ m_mutex' = NoThread
  /\ line' = [line EXCEPT ![t] = OwnLine(op[t].id, DEBUG, "addWorker")]
  /\ calls' = [calls EXCEPT ![op[t].id] = @ + 1]
  /\ pc' = [pc EXCEPT ![t] = "log_lock"]
  /\ UNCHANGED <<coutGood, out, op, idx, nOps, crash>>
  /\ UNCHANGED lifeVars

\* Logger.cpp:105-108 for a file whose stream opens (Worker::Worker, lines
\* 74-85): the separator is written; if that write fails the stream is bad,
\* good() is false and the worker is popped again
AddFileOpened(t, sepOk) ==
  /\ Running(t) /\ pc[t] = "add_body"
  /\ Find(m_workers, op[t].path) = 0
  /\ op[t].path # Console
  /\ out' = [out EXCEPT ![op[t].path] = WriteSeparator(@)]
  /\ LET w == [path |-> op[t].path, level |-> op[t].level,
               stream |-> IF sepOk THEN "good" ELSE "bad"]
         ws == Append(m_workers, w)
     IN m_workers' = IF ~Good(w) THEN PopBack(ws) ELSE ws
  /\ m_mutex' = NoThread
  /\ line' = [line EXCEPT ![t] = OwnLine(op[t].id, DEBUG, "addWorker")]
  /\ calls' = [calls EXCEPT ![op[t].id] = @ + 1]
  /\ pc' = [pc EXCEPT ![t] = "log_lock"]
  /\ UNCHANGED <<coutGood, op, idx, nOps, crash>>
  /\ UNCHANGED lifeVars

\* Logger.cpp:77-79: the stream does not open; Worker::Worker runs LOG(WARNING),
\* whose Line is destroyed at the end of the statement and calls manager.log,
\* while addWorker's lock_guard (line 98) still holds the mutex
AddFileOpenFails(t) ==
  /\ Running(t) /\ pc[t] = "add_body"
  /\ Find(m_workers, op[t].path) = 0
  /\ op[t].path # Console
  /\ op' = [op EXCEPT ![t].fail = "open"]
  /\ line' = [line EXCEPT ![t] = OwnLine(op[t].id, WARNING, "Worker")]
  /\ calls' = [calls EXCEPT ![op[t].id] = @ + 1]
  /\ pc' = [pc EXCEPT ![t] = "log_lock"]
  /\ UNCHANGED <<m_workers, m_mutex, coutGood, out, idx, nOps, crash>>
  /\ UNCHANGED lifeVars

\* Logger.cpp:74-76: std::filesystem::create_directories throws
\* filesystem_error; nothing in Worker::Worker, emplace_back, addWorker or
\* addFile catches it: the vector is unchanged, the lock_guard releases the
\* mutex and the exception reaches the caller
AddFileThrows(t) ==
  /\ Running(t) /\ pc[t] = "add_body"
  /\ Find(m_workers, op[t].path) = 0
  /\ op[t].path # Console
  /\ op' = [op EXCEPT ![t].fail = "throw"]
  /\ m_mutex' = NoThread
  /\ pc' = [pc EXCEPT ![t] = "raised"]
  /\ UNCHANGED <<m_workers, coutGood, out, line, idx, nOps, calls, crash>>
  /\ UNCHANGED lifeVars

\* the caller handles the exception and goes on
CallerCatch(t) ==
  /\ Running(t) /\ pc[t] = "raised"
  /\ pc' = [pc EXCEPT ![t] = "idle"]
  /\ op' = [op EXCEPT ![t] = NoOp]
  /\ UNCHANGED <<m_workers, m_mutex, coutGood, out, line, idx, nOps, calls, crash>>
  /\ UNCHANGED lifeVars

\* ------------------------------------------------------------- removeWorker
\* a removeWorker without the LOG(DEBUG) statement of line 113
CallRemoveWorkerSilent(t, path) ==
  /\ MayCall(t)
  /\ nOps' = nOps + 1
  /\ op' = [op EXCEPT ![t] = [kind |-> "remove", path |-> path, level |-> 0,
                               id |-> nOps + 1, fail |-> "none", args |-> <<>>, k |-> 0]]
  /\ pc' = [pc EXCEPT ![t] = "rem_lock"]
  /\ UNCHANGED <<m_workers, m_mutex, coutGood, out, line, idx, calls, crash>>
  /\ UNCHANGED lifeVars

\* a call of removeConsole / removeFile, Logger.cpp:26, 28, up to the end of the
\* LOG(DEBUG) statement of line 113, which calls manager.log
CallRemoveWorker(t, path) ==
  /\ MayCall(t)
  /\ nOps' = nOps + 1
  /\ op' = [op EXCEPT ![t] = [kind |-> "remove", path |-> path, level |-> 0,
                               id |-> nOps + 1, fail |-> "none", args |-> <<>>, k |-> 0]]
  /\ line' = [line EXCEPT ![t] = OwnLine(nOps + 1, DEBUG, "removeWorker")]
  /\ calls' = [calls EXCEPT ![nOps + 1] = @ + 1]
  /\ pc' = [pc EXCEPT ![t] = "log_lock"]
  /\ UNCHANGED <<m_workers, m_mutex, coutGood, out, idx, crash>>
  /\ UNCHANGED lifeVars

\* Logger.cpp:114
RemLock(t) ==
  /\ Running(t) /\ pc[t] = "rem_lock" /\ CanLock(t)
  /\ m_mutex' = t
  /\ pc' = [pc EXCEPT ![t] = "rem_body"]
  /\ UNCHANGED <<m_workers, coutGood, out, line, op, idx, nOps, calls, crash>>
  /\ UNCHANGED lifeVars

\* a removal that erases the last worker when the identity is not found
RemovedErasesLast(ws, path) ==
  IF Find(ws, path) = 0 THEN PopBack(ws) ELSE Erase(ws, Find(ws, path))

\* a removal that erases nothing
RemovedKeepsAll(ws, path) == ws

\* the worker list after Logger.cpp:115-120
Removed(ws, path) ==
  IF Find(ws, path) = 0 THEN ws ELSE Erase(ws, Find(ws, path))

\* Logger.cpp:115-121: the first worker of this path is erased, the mutex is
\* released and the call returns
RemBody(t) ==
  /\ Running(t) /\ pc[t] = "rem_body"
  /\ m_workers' = Removed(m_workers, op[t].path)
  /\ m_mutex' = NoThread
  /\ pc' = [pc EXCEPT ![t] = "idle"]
  /\ op' = [op EXCEPT ![t] = NoOp]
  /\ UNCHANGED <<coutGood, out, line, idx, nOps, calls, crash>>
  /\ UNCHANGED lifeVars

\* ------------------------------------------------------------- LOG
\* LOG(level) of a caller, Logger.h:55-56: the Line is constructed
LineCtor(t, level, stmt) ==
  /\ MayCall(t)
  /\ nOps' = nOps + 1
  /\ op' = [op EXCEPT ![t] = [kind |-> "log", path |-> "", level |-> level,
                               id |-> nOps + 1, fail |-> "none", args |-> stmt, k |-> 0]]
  /\ line' = [line EXCEPT ![t] = NewLine(nOps + 1, level, "user")]
  /\ pc' = [pc EXCEPT ![t] = "streaming"]
  /\ UNCHANGED <<m_workers, m_mutex, coutGood, out, idx, calls, crash>>
  /\ UNCHANGED lifeVars

\* the next operator<< of the statement, Logger.h:178-181
LineStream(t) ==
  /\ Running(t) /\ pc[t] = "streaming"
  /\ op[t].k < Len(op[t].args)
  /\ line' = [line EXCEPT ![t] = Stream(line[t], op[t].args[op[t].k + 1])]
  /\ op' = [op EXCEPT ![t].k = @ + 1]
  /\ UNCHANGED <<m_workers, m_mutex, coutGood, out, pc, idx, nOps, calls, crash>>
  /\ UNCHANGED lifeVars

\* the end of the statement: Line::~Line calls manager.log, Logger.h:167
LineDtor(t) ==
  /\ Running(t) /\ pc[t] = "streaming"
  /\ op[t].k = Len(op[t].args)
  /\ calls' = [calls EXCEPT ![line[t].id] = @ + 1]
  /\ pc' = [pc EXCEPT ![t] = "log_lock"]
  /\ UNCHANGED <<m_workers, m_mutex, coutGood, out, line, op, idx, nOps, crash>>
  /\ UNCHANGED lifeVars

\* ------------------------------------------------------------- Manager::log
\* Logger.cpp:124
LogLock(t) ==
  /\ Running(t) /\ pc[t] = "log_lock" /\ CanLock(t) /\ m_mutex # t
  /\ m_mutex' = t
  /\ idx' = [idx EXCEPT ![t] = 1]
  /\ pc' = [pc EXCEPT ![t] = "log_loop"]
  /\ UNCHANGED <<m_workers, coutGood, out, line, op, nOps, calls, crash>>
  /\ UNCHANGED lifeVars

\* Logger.cpp:124 by the thread that holds the mutex (the LOG(WARNING) of
\* Worker::Worker, inside addWorker's critical section): locking a std::mutex
\* the thread owns is undefined; the implementations either block for ever
\* or report resource_deadlock_would_occur, a std::system_error that leaves
\* the noexcept destructor Line::~Line and so calls std::terminate
RelockUB(t, outcome) ==
  /\ Running(t) /\ pc[t] = "log_lock" /\ m_mutex = t
  /\ \/ /\ outcome = "deadlock"
        /\ pc' = [pc EXCEPT ![t] = "deadlocked"]
        /\ crash' = crash
     \/ /\ outcome = "terminate"
        /\ crash' = "relock"
        /\ pc' = pc
  /\ UNCHANGED <<m_workers, m_mutex, coutGood, out, line, op, idx, nOps, calls>>
  /\ UNCHANGED lifeVars

\* Logger.cpp:125 with Worker::log returning at line 129
LogSkip(t) ==
  /\ Running(t) /\ pc[t] = "log_loop"
  /\ idx[t] <= Len(m_workers)
  /\ Filtered(m_workers[idx[t]], line[t])
  /\ idx' = [idx EXCEPT ![t] = @ + 1]
  /\ UNCHANGED <<m_workers, m_mutex, coutGood, out, line, pc, op, nOps, calls, crash>>
  /\ UNCHANGED lifeVars

\* Logger.cpp:125 with Worker::log past line 129: lines 130-133
LogPrefix(t) ==
  /\ Running(t) /\ pc[t] = "log_loop"
  /\ idx[t] <= Len(m_workers)
  /\ ~Filtered(m_workers[idx[t]], line[t])
  /\ out' = [out EXCEPT ![m_workers[idx[t]].path] = Append(@, Prefix(line[t]))]
  /\ pc' = [pc EXCEPT ![t] = "log_body"]
  /\ UNCHANGED <<m_workers, m_mutex, coutGood, line, op, idx, nOps, calls, crash>>
  /\ UNCHANGED lifeVars

\* the stream after the rest of the entry is written: the open entry of this
\* event is closed (bytes that follow another event's are a fragment)
Close(seq, l, body, text) ==
  LET n == Len(seq) IN
  IF n > 0 /\ seq[n].ev = l.id /\ ~seq[n].done
  THEN [seq EXCEPT ![n] = [@ EXCEPT !.body = body, !.done = TRUE, !.text = text]]
  ELSE Append(seq, [ev |-> l.id, sev |-> l.level, site |-> "fragment",
                    body |-> body, done |-> TRUE, text |-> text])

\* the worker after a write that fails: badbit is set on its stream
Failed(w) ==
  IF w.path = Console THEN w ELSE [w EXCEPT !.stream = "bad"]

\* Logger.cpp:134-144 for a message with a character that is no newline: the
\* body is written and the entry ended; a write may fail and leave the
\* stream bad
LogBody(t, writeOk) ==
  /\ Running(t) /\ pc[t] = "log_body"
  /\ idx[t] <= Len(m_workers)
  /\ ~OnlyNewlines(line[t].msg)
  /\ LET w == m_workers[idx[t]] IN
       /\ out' = [out EXCEPT ![w.path] = Close(@, line[t], Strip(line[t].msg),
                                                  EntryText(w, Strip(line[t].msg)))]
       /\ m_workers' = IF writeOk THEN m_workers
                       ELSE [m_workers EXCEPT ![idx[t]] = Failed(w)]
       /\ coutGood' = IF ~writeOk /\ w.path = Console THEN FALSE ELSE coutGood
  /\ idx' = [idx EXCEPT ![t] = @ + 1]
  /\ pc' = [pc EXCEPT ![t] = "log_loop"]
  /\ UNCHANGED <<m_mutex, line, op, nOps, calls, crash>>
  /\ UNCHANGED lifeVars

\* Logger.cpp:134 for a message that is empty or holds newlines only: the loop
\* evaluates msg.back() on an empty string, which is undefined.  A build
\* without library assertions reads a byte that is no newline, leaves the loop
\* and writes an empty body; a build with them aborts the process
LogBodyUB(t, outcome) ==
  /\ Running(t) /\ pc[t] = "log_body"
  /\ idx[t] <= Len(m_workers)
  /\ OnlyNewlines(line[t].msg)
  /\ \/ /\ outcome = "benign"
        /\ out' = [out EXCEPT ![m_workers[idx[t]].path] =
                                Close(@, line[t], <<>>, EntryText(m_workers[idx[t]], <<>>))]
        /\ idx' = [idx EXCEPT ![t] = @ + 1]
        /\ pc' = [pc EXCEPT ![t] = "log_loop"]
        /\ crash' = crash
     \/ /\ outcome = "abort"
        /\ crash' = "back_of_empty"
        /\ UNCHANGED <<out, idx, pc>>
  /\ UNCHANGED <<m_workers, m_mutex, coutGood, line, op, nOps, calls>>
  /\ UNCHANGED lifeVars

\* Logger.cpp:125-126: the loop is over, the lock_guard releases the mutex; the
\* Line is gone; removeWorker goes on at line 114, the others return
LogUnlock(t) ==
  /\ Running(t) /\ pc[t] = "log_loop"
  /\ idx[t] > Len(m_workers)
  /\ m_mutex' = NoThread
  /\ line' = [line EXCEPT ![t] = NoLine]
  /\ idx' = [idx EXCEPT ![t] = 0]
  /\ pc' = [pc EXCEPT ![t] = IF op[t].kind = "remove" THEN "rem_lock" ELSE "idle"]
  /\ op' = [op EXCEPT ![t] = IF op[t].kind = "remove" THEN @ ELSE NoOp]
  /\ UNCHANGED <<m_workers, coutGood, out, nOps, calls, crash>>
  /\ UNCHANGED lifeVars

\* ------------------------------------------------------------- Spec
ThreadStep(t) ==
  \/ \E p \in CallPaths, l \in AddLevels : CallAddWorker(t, p, l)
  \/ AddLock(t)
  \/ AddExisting(t)
  \/ AddConsole(t)
  \/ \E sepOk \in BOOLEAN : AddFileOpened(t, sepOk)
  \/ AddFileOpenFails(t)
  \/ AddFileThrows(t)
  \/ CallerCatch(t)
  \/ \E p \in CallPaths : CallRemoveWorker(t, p)
  \/ RemLock(t)
  \/ RemBody(t)
  \/ \E l \in UserLevels, stmt \in Statements : LineCtor(t, l, stmt)
  \/ LineStream(t)
  \/ LineDtor(t)
  \/ LogLock(t)
  \/ \E o \in {"deadlock", "terminate"} : RelockUB(t, o)
  \/ LogSkip(t)
  \/ LogPrefix(t)
  \/ \E ok \in BOOLEAN : LogBody(t, ok)
  \/ \E o \in {"benign", "abort"} : LogBodyUB(t, o)
  \/ LogUnlock(t)

Next == \E t \in Threads : ThreadStep(t)

Spec == Init /\ [][Next]_vars

\* ------------------------------------------------------------- Manager::Init
\* Manager::Init::Init, Logger.cpp:88-90.  m_ref_count is a non-static member
\* with the initializer 0 (Logger.h:132): the guard under construction counts
\* from 0, whatever other guards exist.
InitCtor(g) ==
  /\ crash = "none" /\ \A t \in Threads : pc[t] = "idle"
  /\ ~guardLive[g] /\ nCtor < MaxGuards
  /\ guardLive' = [guardLive EXCEPT ![g] = TRUE]
  /\ LET old == 0 IN
       /\ m_ref_count' = [m_ref_count EXCEPT ![g] = old + 1]
       /\ IF old = 0
          THEN \* new (&manager) Manager()
               /\ m_workers' = <<>>
               /\ m_mutex' = NoThread
               /\ nCtor' = nCtor + 1
               /\ alive' = TRUE
          ELSE UNCHANGED <<m_workers, m_mutex, nCtor, alive>>
  /\ UNCHANGED <<coutGood, out, line, pc, op, idx, nOps, calls, crash, nDtor>>

\* Manager::Init::~Init, Logger.cpp:92-94
InitDtor(g) ==
  /\ crash = "none" /\ \A t \in Threads : pc[t] = "idle"
  /\ guardLive[g]
  /\ guardLive' = [guardLive EXCEPT ![g] = FALSE]
  /\ m_ref_count' = [m_ref_count EXCEPT ![g] = @ - 1]
  /\ IF m_ref_count[g] - 1 = 0
     THEN \* manager.~Manager()
          /\ m_workers' = <<>>
          /\ nDtor' = nDtor + 1
          /\ alive' = FALSE
     ELSE UNCHANGED <<m_workers, nDtor, alive>>
  /\ UNCHANGED <<m_mutex, coutGood, out, line, pc, op, idx, nOps, calls, crash, nCtor>>

\* A sequential program: guards come and go between the calls of one thread.
NextLife ==
  \/ \E g \in Guards : InitCtor(g)
  \/ \E g \in Guards : InitDtor(g)
  \/ ThreadStep("t1")

SpecLife == Init /\ [][NextLife]_vars

\* ------------------------------------------------------------- one dispatch
\* The workers a Manager can hold: distinct identities, any threshold, the
\* console without a stream of its own, a file with a good or a bad stream.
WorkerStates ==
  { [path |-> p, level |-> l, stream |-> s] :
      p \in Paths, l \in Levels, s \in {"null", "good", "bad"} }
WorkerOk(w) == (w.path = Console) <=> (w.stream = "null")

\* the texts of at most n characters
RECURSIVE TextsUpTo(_)
TextsUpTo(n) ==
  IF n = 0 THEN {<<>>}
  ELSE LET s == TextsUpTo(n - 1) IN s \cup {Append(x, c) : x \in s, c \in {CH, NL}}

\* the messages of the events dispatched in SpecWorker
WorkerTexts == TextsUpTo(MaxLen)

\* One worker is registered and t1's LOG statement has just ended: Line::~Line
\* has called manager.log for an event of any severity.
InitWorker ==
  /\ \E w \in WorkerStates : WorkerOk(w) /\ m_workers = <<w>>
  /\ m_mutex = NoThread
  /\ coutGood \in BOOLEAN
  /\ out = [p \in Paths |-> <<>>]
  /\ \E l \in Levels, m \in WorkerTexts :
       line = [t \in Threads |->
                IF t = "t1" THEN [id |-> 1, level |-> l, site |-> "user", msg |-> m]
                ELSE NoLine]
  /\ pc = [t \in Threads |-> IF t = "t1" THEN "log_lock" ELSE "idle"]
  /\ op = [t \in Threads |->
            IF t = "t1" THEN [NoOp EXCEPT !.kind = "log", !.id = 1] ELSE NoOp]
  /\ idx = [t \in Threads |-> 0]
  /\ nOps = 1
  /\ calls = [e \in 1..MaxOps |-> IF e = 1 THEN 1 ELSE 0]
  /\ crash = "none"
  /\ m_ref_count = [g \in Guards |-> 0]
  /\ guardLive = [g \in Guards |-> FALSE]
  /\ nCtor = 0
  /\ nDtor = 0
  /\ alive = TRUE

NextWorker ==
  \/ LogLock("t1")
  \/ LogSkip("t1")
  \/ LogPrefix("t1")
  \/ \E ok \in BOOLEAN : LogBody("t1", ok)
  \/ \E o \in {"benign", "abort"} : LogBodyUB("t1", o)
  \/ LogUnlock("t1")

SpecWorker == InitWorker /\ [][NextWorker]_vars

\* ------------------------------------------------------------- three workers
\* Every destination is registered, in any order and with any of the
\* thresholds, by calls that returned; one thread goes on from there.
InitOrder ==
  /\ \E f \in [1..3 -> Paths], lv \in [1..3 -> AddLevels] :
       /\ \A i, j \in 1..3 : f[i] = f[j] => i = j
       /\ m_workers = [i \in 1..3 |->
                         [path |-> f[i], level |-> lv[i],
                          stream |-> IF f[i] = Console THEN "null" ELSE "good"]]
  /\ m_mutex = NoThread
  /\ coutGood = TRUE   \* the console was registered: std::cout was good
  /\ out = [p \in Paths |-> <<>>]
  /\ line = [t \in Threads |-> NoLine]
  /\ pc = [t \in Threads |-> "idle"]
  /\ op = [t \in Threads |-> NoOp]
  /\ idx = [t \in Threads |-> 0]
  /\ nOps = 0
  /\ calls = [e \in 1..MaxOps |-> 0]
  /\ crash = "none"
  /\ m_ref_count = [g \in Guards |-> 0]
  /\ guardLive = [g \in Guards |-> FALSE]
  /\ nCtor = 0
  /\ nDtor = 0
  /\ alive = TRUE

NextOrder == ThreadStep("t1")

SpecOrder == InitOrder /\ [][NextOrder]_vars

\* ------------------------------------------------------------- properties
\* thread t takes the step
Moved(t) == pc'[t] # pc[t] \/ idx'[t] # idx[t] \/ line'[t] # line[t] \/ op'[t] # op[t]

\* the positions of event e's entries in a stream
EntriesOf(seq, e) == {i \in DOMAIN seq : seq[i].ev = e}

\* the identities and thresholds of the collection, in registration order
Registered(ws) == [i \in DOMAIN ws |-> <<ws[i].path, ws[i].level>>]

\* thread t is inside Manager::log's loop
InDispatch(t) == pc[t] \in {"log_loop", "log_body"}

\* thread t offers its event to the worker at idx[t]: one call of Worker::log begins
Offers(t) ==
  /\ pc[t] = "log_loop" /\ idx[t] <= Len(m_workers) /\ Moved(t)

\* C1: a healthy worker writes an event of severity S iff S <= T, its
\* threshold, in the order CRITICAL = 0 < ... < TRACE = 5; an unhealthy worker
\* writes nothing.  Each call of Worker::log either appends the event's entry
\* to the worker's own stream, and then the worker is healthy and S <= T, or
\* leaves every stream as it is, and then it is unhealthy or S > T.
C1_LevelFiltering ==
  [][\A t \in Threads : Offers(t) =>
       LET w == m_workers[idx[t]]
           wrote == /\ out'[w.path] = Append(out[w.path], Prefix(line[t]))
                    /\ \A p \in Paths \ {w.path} : out'[p] = out[p]
       IN /\ wrote <=> (Good(w) /\ line[t].level <= w.level)
          /\ ~wrote => out' = out
          /\ ~Good(w) => out' = out]_vars

\* a healthy worker has begun the entry of an event whose severity equals its
\* threshold, which is neither the most nor the least urgent level
C1_Witness ==
  \E t \in Threads :
    /\ pc[t] = "log_body"
    /\ line[t].level = m_workers[idx[t]].level
    /\ line[t].level = WARNING
    /\ EntriesOf(out[m_workers[idx[t]].path], line[t].id) # {}

\* at most one worker per destination identity
UniquePaths ==
  \A i, j \in DOMAIN m_workers : m_workers[i].path = m_workers[j].path => i = j

\* thread t's addWorker call returns to its caller
AddReturns(t) ==
  op[t].kind = "add" /\ op[t].fail = "none" /\ pc[t] # "idle" /\ pc'[t] = "idle"

\* thread t's addWorker call for identity p runs Logger.cpp:99-106
AddCS(t, p) ==
  pc[t] = "add_body" /\ Moved(t) /\ op[t].path = p /\ op'[t].fail = "none"

\* C2 as stated: at most one worker per identity, and its threshold is the one
\* passed by the addWorker call for that identity that completed most
\* recently: when a call returns, the worker of its identity, if there is
\* one, has the threshold the call passed.
C2_Original ==
  [][/\ UniquePaths'
     /\ \A t \in Threads : AddReturns(t) =>
          LET j == Find(m_workers', op[t].path) IN
          j # 0 => m_workers'[j].level = op[t].level]_vars

\* C2 amended: at most one worker per identity, and its threshold is the one
\* passed by the addWorker call for that identity whose critical section ran
\* last: such a step leaves the worker, if any, with the threshold passed,
\* and no other step registers the identity or changes its threshold.
C2_Amended ==
  [][/\ UniquePaths'
     /\ \A p \in Paths :
          LET i == Find(m_workers, p)
              j == Find(m_workers', p)
          IN j # 0 =>
             IF \E t \in Threads : AddCS(t, p)
             THEN \A t \in Threads : AddCS(t, p) => m_workers'[j].level = op[t].level
             ELSE i # 0 /\ m_workers'[j].level = m_workers[i].level]_vars

\* an addWorker call that registered its identity has not returned yet, and a
\* later call has replaced the threshold
C2_Witness ==
  \E t \in Threads :
    /\ op[t].kind = "add" /\ op[t].fail = "none"
    /\ pc[t] \in {"log_lock", "log_loop", "log_body"}
    /\ Find(m_workers, op[t].path) # 0
    /\ m_workers[Find(m_workers, op[t].path)].level # op[t].level

\* no step of another thread writes to a stream or changes the collection
\* while a thread is inside Manager::log
BlockUninterrupted ==
  \A t \in Threads :
    (InDispatch(t) /\ ~Moved(t)) => (out' = out /\ m_workers' = m_workers)

\* an entry that is not ended is the last of its stream, and its writer is
\* inside Worker::log for that stream; no bytes of an event follow another's
NoTornEntry ==
  \A p \in Paths : \A i \in DOMAIN out[p] :
    /\ out[p][i].site # "fragment"
    /\ ~out[p][i].done =>
         /\ i = Len(out[p])
         /\ \E t \in Threads :
              /\ pc[t] = "log_body" /\ line[t].id = out[p][i].ev
              /\ idx[t] <= Len(m_workers) /\ m_workers[idx[t]].path = p

\* two events that two streams both hold are in the same order in both
SameOrder ==
  \A p, q \in Paths : \A i1, i2 \in DOMAIN out[p] : \A j1, j2 \in DOMAIN out[q] :
    (/\ out[p][i1].ev >= 1 /\ out[p][i2].ev >= 1
     /\ out[p][i1].ev = out[q][j1].ev /\ out[p][i2].ev = out[q][j2].ev
     /\ i1 < i2) => j1 < j2

\* when Manager::log returns, the entries of its event are ended
CompleteOnReturn ==
  \A t \in Threads :
    (pc[t] = "log_loop" /\ ~InDispatch(t)') =>
      \A p \in Paths : \A i \in EntriesOf(out'[p], line[t].id) : out'[p][i].done

\* C3: the writes of one event to all registered workers are one
\* uninterrupted block: between Manager::log taking and releasing the mutex no
\* other thread writes an entry or changes the worker list; entries are not
\* interleaved within a stream, the entries of a dispatch that returned are
\* complete, and all streams hold the events in the same order (the streams
\* are empty at first, so the order is looked at after each step that writes).
C3_AtomicDispatch ==
  [][/\ BlockUninterrupted
     /\ NoTornEntry'
     /\ out' # out => SameOrder'
     /\ CompleteOnReturn]_vars

\* a thread is between the first and the last per-worker write of its event
\* while another thread's Line::~Line has called manager.log
C3_Witness ==
  \E t, u \in Threads :
    /\ t # u
    /\ pc[t] = "log_loop" /\ idx[t] = 2 /\ Len(m_workers) = 2
    /\ EntriesOf(out[m_workers[1].path], line[t].id) # {}
    /\ ~Filtered(m_workers[2], line[t])
    /\ pc[u] = "log_lock" /\ ~Filtered(m_workers[1], line[u])

\* C4: an addWorker call for a new file identity whose file cannot be opened
\* returns, with the worker discarded and a WARNING dispatched: the call
\* never blocks for ever on the manager's mutex and never ends the process.
C4_OpenFailureNonFatal ==
  \A t \in Threads :
    op[t].fail = "open" => (pc[t] # "deadlocked" /\ crash # "relock")

\* C5: no failure of a destination propagates to the caller, keeps the
\* manager's mutex locked or ends the process: no call ends in an exception
\* that reaches the caller, no call blocks for ever on the mutex it holds,
\* std::terminate is not called, and a thread that is back in its caller
\* does not hold the mutex.
C5_NeverRaises ==
  /\ \A t \in Threads : pc[t] \notin {"raised", "deadlocked"}
  /\ crash # "relock"
  /\ \A t \in Threads : ~(pc[t] = "idle" /\ m_mutex = t)

\* thread t takes a step of a removeWorker call whose identity is not registered
RemovesAbsent(t) ==
  /\ Moved(t)
  /\ op[t].kind = "remove" \/ op'[t].kind = "remove"
  /\ LET path == IF op[t].kind = "remove" THEN op[t].path ELSE op'[t].path
     IN Find(m_workers, path) = 0

\* C6: removing an identity that has no registered worker leaves the
\* collection unchanged: no step of such a removeWorker call (its
\* announcement, taking the mutex, the erase loop) changes the identities,
\* the thresholds or the registration order.
C6_RemoveAbsentUnchanged ==
  [][\A t \in Threads : RemovesAbsent(t) =>
       Registered(m_workers') = Registered(m_workers)]_vars

\* the erase loop of a removeWorker call is about to run over a collection
\* that holds a worker, but none of the call's identity
C6_Witness ==
  \E t \in Threads :
    /\ pc[t] = "rem_body"
    /\ m_workers # <<>>
    /\ Find(m_workers, op[t].path) = 0

WritesAnnouncement(e) ==
  \E i \in DOMAIN m_workers :
    LET p == m_workers[i].path IN
    /\ m_workers[i].level >= DEBUG
    /\ \A q \in Paths \ {p} : out'[q] = out[q]
    /\ Len(out'[p]) >= 1
    /\ LET last == out'[p][Len(out'[p])] IN
         /\ last.ev = e /\ last.sev = DEBUG /\ last.site = "removeWorker"
         /\ SubSeq(out'[p], 1, Len(out'[p]) - 1) \in
              {out[p], SubSeq(out[p], 1, Len(out[p]) - 1)}
         /\ Len(out'[p]) \in {Len(out[p]), Len(out[p]) + 1}

AnyGuard == \E g \in Guards : guardLive[g]

\* C8: the Manager is constructed by the first guard only and destroyed by
\* the last guard only: a guard constructs it only when no guard is live,
\* destroys it only when no guard stays live, and the workers registered
\* while a guard is live survive the construction of further guards.
C8_RefCountedLifecycle ==
  [][/\ nCtor' # nCtor => ~AnyGuard
     /\ nDtor' # nDtor => ~AnyGuard'
     /\ (AnyGuard /\ AnyGuard' /\ guardLive' # guardLive) => m_workers' = m_workers]_vars

\* the text of the first k values of a statement, in the statement's order
RECURSIVE Flatten(_, _)
Flatten(args, k) ==
  IF k = 0 THEN <<>> ELSE Flatten(args, k - 1) \o args[k]

\* the Line of a caller's LOG statement holds the severity and the location
\* of its creation and the values streamed so far, in call order;
\* Manager::log is called for it only when the statement ends, and once
LineFaithful ==
  \A t \in Threads : op[t].kind = "log" =>
    /\ line[t].id = op[t].id /\ line[t].level = op[t].level /\ line[t].site = "user"
    /\ line[t].msg = Flatten(op[t].args, op[t].k)
    /\ pc[t] = "streaming" => calls[op[t].id] = 0
    /\ pc[t] # "streaming" => (op[t].k = Len(op[t].args) /\ calls[op[t].id] = 1)

\* Manager::log is called at most once per event, and no stream holds two
\* entries of one event
NeverTwice ==
  /\ \A e \in 1..MaxOps : calls[e] <= 1
  /\ \A p \in Paths : \A i, j \in DOMAIN out[p] :
       (out[p][i].ev >= 1 /\ out[p][i].ev = out[p][j].ev) => i = j

\* when Manager::log returns, every registered worker that is healthy and
\* admits the severity holds one ended entry of the event, with the event's
\* severity, location and text
WrittenOnReturn ==
  \A t \in Threads :
    (pc[t] = "log_loop" /\ ~InDispatch(t)') =>
      \A i \in DOMAIN m_workers :
        LET w == m_workers[i]
            es == EntriesOf(out[w.path], line[t].id)
        IN (Good(w) /\ line[t].level <= w.level) =>
             /\ Cardinality(es) = 1
             /\ \A n \in es :
                  /\ out[w.path][n].done
                  /\ out[w.path][n].sev = line[t].level
                  /\ out[w.path][n].site = line[t].site
                  /\ out[w.path][n].body =
                       IF OnlyNewlines(line[t].msg) THEN <<>> ELSE Strip(line[t].msg)

\* C9: a LOG statement that reaches its end calls Manager::log exactly once
\* for its event, after all values were appended in call order and with the
\* severity and location captured at creation; every worker that is
\* registered, healthy and admits the severity then writes exactly one entry
\* of the event, and no sink ever holds two.
C9_ExactlyOnce ==
  [][LineFaithful' /\ NeverTwice' /\ WrittenOnReturn]_vars

\* the dispatch of a caller's statement with two streamed values is over,
\* and a registered worker wrote the event
C9_Witness ==
  \E t \in Threads :
    /\ op[t].kind = "log" /\ Len(op[t].args) = 2
    /\ pc[t] = "log_loop" /\ idx[t] > Len(m_workers)
    /\ \E i \in DOMAIN m_workers :
         EntriesOf(out[m_workers[i].path], op[t].id) # {}

\* while Manager::log runs, the workers that hold the event are those before
\* the loop's position (and the one at it, once its entry is begun), and each
\* worker before the position that is healthy and admits the severity holds
\* it, whatever the workers before it did
OfferedInOrder ==
  \A t \in Threads : InDispatch(t) =>
    \A i \in DOMAIN m_workers :
      LET w == m_workers[i]
          has == EntriesOf(out[w.path], line[t].id) # {}
      IN /\ has => (i < idx[t] \/ (i = idx[t] /\ pc[t] = "log_body"))
         /\ (i < idx[t] /\ Good(w) /\ line[t].level <= w.level) => has

\* a worker that is unhealthy or filters the event out passes the loop on to
\* the next worker
LoopAdvances ==
  \A t \in Threads :
    (Offers(t) /\ Filtered(m_workers[idx[t]], line[t])) =>
      /\ idx'[t] = idx[t] + 1 /\ pc'[t] = "log_loop"
      /\ m_mutex' = m_mutex /\ crash' = crash /\ m_workers' = m_workers

\* the identities of the collection, in registration order
PathsOf(ws) == [i \in DOMAIN ws |-> ws[i].path]

\* a new worker goes to the end, and a removal keeps the others in order
OrderKept ==
  LET old == PathsOf(m_workers)
      new == PathsOf(m_workers')
  IN /\ Len(new) > Len(old) => (Len(new) = Len(old) + 1 /\ SubSeq(new, 1, Len(old)) = old)
     /\ Len(new) < Len(old) =>
          \E i \in DOMAIN old :
            new = [j \in 1..(Len(old) - 1) |-> IF j < i THEN old[j] ELSE old[j + 1]]
     /\ Len(new) = Len(old) => new = old

\* C10: Manager::log offers an event to the registered workers in
\* registration order (a new worker is appended last, a removal keeps the
\* relative order of the others), and a worker that is unhealthy or filters
\* the event out does not keep a later worker from receiving it.
C10_DispatchOrder ==
  [][OfferedInOrder' /\ LoopAdvances /\ OrderKept]_vars

\* a dispatch over three workers is over: the first did not write the event,
\* the second and the third did
C10_Witness ==
  \E t \in Threads :
    /\ pc[t] = "log_loop" /\ idx[t] > Len(m_workers) /\ Len(m_workers) = 3
    /\ EntriesOf(out[m_workers[1].path], line[t].id) = {}
    /\ EntriesOf(out[m_workers[2].path], line[t].id) # {}
    /\ EntriesOf(out[m_workers[3].path], line[t].id) # {}

\* ------------------------------------------------------------- re-adding
\* thread t's addWorker call runs its critical section while a worker of its
\* identity is registered
ReAdds(t) ==
  /\ pc[t] = "add_body" /\ Moved(t)
  /\ \E i \in DOMAIN m_workers : m_workers[i].path = op[t].path

\* C11: re-adding an existing identity changes only that worker's threshold:
\* the collection keeps its length and order, every other worker and the
\* worker's own stream are unchanged, nothing is written to any sink (no new
\* separator, no announcement), the call returns with the mutex released, and
\* a re-add with the threshold the worker already has changes nothing.
C11_ReAddOnlyThreshold ==
  [][\A t \in Threads : ReAdds(t) =>
       /\ Len(m_workers') = Len(m_workers)
       /\ \A i \in DOMAIN m_workers :
            m_workers'[i] = IF m_workers[i].path = op[t].path
                            THEN [m_workers[i] EXCEPT !.level = op[t].level]
                            ELSE m_workers[i]
       /\ out' = out /\ coutGood' = coutGood /\ calls' = calls
       /\ pc'[t] = "idle" /\ m_mutex' = NoThread
       /\ (\A i \in DOMAIN m_workers :
             m_workers[i].path = op[t].path => m_workers[i].level = op[t].level)
          => m_workers' = m_workers]_vars

\* the second call of a run was an addWorker for the registered file "a": it
\* returned without an announcement, the worker has the new threshold and
\* the file holds the one separator of its opening
C11_Witness ==
  /\ nOps = 2 /\ calls[1] = 1 /\ calls[2] = 0
  /\ \A t \in Threads : pc[t] = "idle"
  /\ Len(m_workers) = 1
  /\ m_workers[1].path = "a" /\ m_workers[1].level = DEBUG
  /\ out["a"] = <<Separator>>

\* ------------------------------------------------------------- separator
\* identity p is registered
IsRegistered(ws, p) == \E i \in DOMAIN ws : ws[i].path = p

\* the step registers a worker for p
Opens(p) == ~IsRegistered(m_workers, p) /\ IsRegistered(m_workers', p)

\* the step is the critical section of an addWorker call for the unregistered p
OpenAttempt(p) ==
  \E t \in Threads :
    pc[t] = "add_body" /\ Moved(t) /\ op[t].path = p /\ ~IsRegistered(m_workers, p)

\* the number of separator blocks in a file
RECURSIVE Separators(_)
Separators(seq) ==
  IF seq = <<>> THEN 0
  ELSE Separators(SubSeq(seq, 1, Len(seq) - 1))
       + (IF seq[Len(seq)] = Separator THEN 1 ELSE 0)

\* the step begins or ends an entry at the end of seq and adds no separator
WritesEntry(seq, seq2) ==
  /\ Len(seq2) >= 1 /\ seq2[Len(seq2)] # Separator
  /\ \/ SubSeq(seq2, 1, Len(seq2) - 1) = seq
     \/ /\ Len(seq2) = Len(seq)
        /\ SubSeq(seq2, 1, Len(seq2) - 1) = SubSeq(seq, 1, Len(seq) - 1)
        /\ ~seq[Len(seq)].done

\* C12: each opening of a file worker (the first addWorker of its path and
\* every addWorker after a removeWorker of it) writes exactly one separator
\* block, at the end of the file and before the worker is registered; every
\* other write to the file is an entry written through the registered worker
\* and goes after that block, so the block precedes the announcement of the
\* addition and the events other threads dispatch; a file with an entry
\* begins with a separator, and the entry of a worker's own announcement
\* follows the last separator.
C12_SeparatorFirst ==
  [][\A p \in Paths \ {Console} :
       /\ Opens(p) => out'[p] = Append(out[p], Separator)
       /\ Separators(out'[p]) # Separators(out[p]) =>
            (OpenAttempt(p) /\ Separators(out'[p]) = Separators(out[p]) + 1)
       /\ (out'[p] # out[p] /\ ~OpenAttempt(p)) =>
            /\ IsRegistered(m_workers, p)
            /\ out[p] # <<>> /\ out[p][1] = Separator
            /\ WritesEntry(out[p], out'[p])
       /\ \A t \in Threads :
            (op[t].kind = "add" /\ op[t].path = p /\ pc[t] = "log_body"
             /\ pc'[t] = "log_loop" /\ m_workers[idx[t]].path = p) =>
              \E i \in DOMAIN out'[p] :
                /\ out'[p][i] = Separator
                /\ \A j \in DOMAIN out'[p] : out'[p][j] = Separator => j <= i
                /\ \E j \in DOMAIN out'[p] : j > i /\ out'[p][j].ev = op[t].id]_vars

\* file "a" was opened, closed by removeWorker and opened again: it holds two
\* separators, and the announcement of the second addition after the second
C12_Witness ==
  \E i, j, k \in DOMAIN out["a"] :
    /\ i < j /\ j < k
    /\ out["a"][i] = Separator /\ out["a"][j] = Separator
    /\ out["a"][k].site = "addWorker" /\ out["a"][k].ev = 3 /\ out["a"][k].done

\* ------------------------------------------------------------- rendering
\* the number of newline characters among the first n of seq
NewlinesIn(seq, n) == Cardinality({i \in 1..n : seq[i] = NL})

\* msg without its trailing newline characters
Trimmed(msg) ==
  LET n == CHOOSE i \in 0..Len(msg) :
             /\ i = 0 \/ msg[i] # NL
             /\ \A j \in (i + 1)..Len(msg) : msg[j] = NL
  IN SubSeq(msg, 1, n)

\* the position of the n-th newline of seq; 0 for n = 0, and the position
\* behind the end for the one after the last
NewlineAt(seq, n) ==
  IF n = 0 THEN 0
  ELSE IF n > NewlinesIn(seq, Len(seq)) THEN Len(seq) + 1
  ELSE CHOOSE i \in 1..Len(seq) : seq[i] = NL /\ NewlinesIn(seq, i) = n

\* the n-th line of seq, without its newline
LineOf(seq, n) ==
  SubSeq(seq, NewlineAt(seq, n - 1) + 1, NewlineAt(seq, n) - 1)

\* text is the rendering of msg by worker w: k lines for the k lines of the
\* trimmed message, the first behind the prefix, the others behind the
\* indentation and marker, and one newline at the end
RendersLines(w, msg, text) ==
  LET trim == Trimmed(msg)
      k == NewlinesIn(trim, Len(trim)) + 1
      console == (w.path = Console)
      first == IF console THEN <<"COLOR", "PREFIX">> ELSE <<"PREFIX">>
      last == IF console THEN <<"RESET">> ELSE <<>>
  IN /\ Len(text) >= 1 /\ text[Len(text)] = NL
     /\ NewlinesIn(text, Len(text)) = k
     /\ \A n \in 1..k :
          LineOf(text, n) =
            (IF n = 1 THEN first ELSE <<"INDENT">>)
              \o LineOf(trim, n)
              \o (IF n = k THEN last ELSE <<>>)

\* thread t's Worker::log call ends the entry of its event
EndsEntry(t) == pc[t] = "log_body" /\ pc'[t] = "log_loop"

\* C13: for a message with a character that is no newline, with k >= 1 lines
\* after its trailing newlines are removed, an accepting worker writes exactly
\* k lines and one terminating newline: the first line has the prefix (time,
\* level tag, location), each of the k-1 others, empty ones included, begins
\* with the indentation and the '->' marker, and the trailing newlines of the
\* message add no line.
C13_MultiLine ==
  [][\A t \in Threads :
       (EndsEntry(t) /\ \E i \in DOMAIN line[t].msg : line[t].msg[i] # NL) =>
         LET w == m_workers[idx[t]]
             seq == out'[w.path]
         IN /\ Len(seq) = Len(out[w.path]) /\ Len(seq) >= 1
            /\ seq[Len(seq)].ev = line[t].id /\ seq[Len(seq)].done
            /\ RendersLines(w, line[t].msg, seq[Len(seq)].text)]_vars

\* the file worker wrote the event whose message is "x\n\nx\n": three lines,
\* the second empty, and no line for the trailing newline
C13_Witness ==
  /\ line["t1"].msg = <<CH, NL, NL, CH, NL>>
  /\ pc["t1"] = "log_loop" /\ idx["t1"] = 2
  /\ m_workers[1].path = "a"
  /\ Len(out["a"]) = 1 /\ out["a"][1].done
  /\ out["a"][1].text = <<"PREFIX", CH, NL, "INDENT", NL, "INDENT", CH, NL>>

\* ------------------------------------------------------------- deadlock
\* C14: no thread ever tries to take the manager's mutex while it holds it,
\* so that under fair scheduling every addWorker, removeWorker and
\* Manager::log call, the logger's own LOG statements included, returns with
\* the mutex released: no thread is at the lock of Manager::log as the owner
\* of the mutex, and none is blocked on it for ever.
C14_DeadlockFree ==
  \A t \in Threads :
    /\ ~(pc[t] = "log_lock" /\ m_mutex = t)
    /\ pc[t] # "deadlocked"

\* ------------------------------------------------------------- console failure
\* C15: when addWorker is called for the console while std::cout is not good,
\* the attempted worker is discarded and a WARNING diagnostic is dispatched
\* to the registered workers: the critical section of such a call leaves the
\* console unregistered and ends with a Line of severity WARNING handed to
\* Manager::log.
C15_ConsoleFailureReported ==
  [][\A t \in Threads :
       (/\ pc[t] = "add_body" /\ Moved(t) /\ op[t].path = Console
        /\ ~IsRegistered(m_workers, Console) /\ ~coutGood) =>
         /\ ~IsRegistered(m_workers', Console)
         /\ line'[t].id = op[t].id /\ line'[t].level = WARNING
         /\ calls'[op[t].id] = 1]_vars

\* ------------------------------------------------------------- log-then-erase
\* thread t's removeWorker call offers its announcement to the worker it is
\* about to remove, which is healthy and admits DEBUG
OffersOwnRemoval(t) ==
  /\ op[t].kind = "remove" /\ Offers(t)
  /\ m_workers[idx[t]].path = op[t].path
  /\ Good(m_workers[idx[t]]) /\ m_workers[idx[t]].level >= DEBUG

\* thread t's removeWorker call runs its erase loop
Erases(t) == pc[t] = "rem_body" /\ Moved(t)

\* C16: removeWorker dispatches its DEBUG 'removing' event before it erases
\* the worker: when the erase loop runs, Manager::log was called once for the
\* event and has returned, with every entry of the event ended; a worker of
\* the removed identity that is registered at dispatch time, healthy and of
\* threshold DEBUG or TRACE writes the announcement to its sink and stays
\* registered; and a worker leaves the collection only in the erase loop of
\* a removeWorker call for its identity.
C16_LogThenErase ==
  [][/\ \A t \in Threads : OffersOwnRemoval(t) =>
          LET p == op[t].path IN
          /\ line[t].level = DEBUG /\ line[t].site = "removeWorker"
          /\ line[t].id = op[t].id
          /\ out'[p] = Append(out[p], Prefix(line[t]))
          /\ m_workers' = m_workers
     /\ \A t \in Threads : Erases(t) =>
          /\ calls[op[t].id] = 1 /\ line[t] = NoLine
          /\ \A p \in Paths : \A i \in EntriesOf(out[p], op[t].id) : out[p][i].done
          /\ ~IsRegistered(m_workers', op[t].path)
          /\ out' = out
     /\ \A p \in Paths :
          (IsRegistered(m_workers, p) /\ ~IsRegistered(m_workers', p)) =>
            \E t \in Threads : Erases(t) /\ op[t].path = p]_vars

\* the second call of a run, removeFile("a"), has returned: the worker is
\* erased, and its file ends with the announcement of that removal
C16_Witness ==
  /\ nOps = 2 /\ \A t \in Threads : pc[t] = "idle"
  /\ ~IsRegistered(m_workers, "a")
  /\ Len(out["a"]) >= 2
  /\ LET last == out["a"][Len(out["a"])] IN
       last.ev = 2 /\ last.site = "removeWorker" /\ last.sev = DEBUG /\ last.done

\* ------------------------------------------------------------- announcement
\* C17: addWorker dispatches its DEBUG 'added' event exactly when it added a
\* new worker to the collection: the critical section of an addWorker call is
\* followed by the LOG(DEBUG) statement of the call if and only if it
\* registered the identity, so not when it only replaced a threshold and not
\* when the new worker was discarded as unhealthy.
C17_AnnouncedIffAdded ==
  [][\A t \in Threads : (pc[t] = "add_body" /\ Moved(t)) =>
       LET announced == /\ line'[t].id = op[t].id /\ line'[t].level = DEBUG
                        /\ line'[t].site = "addWorker" /\ calls'[op[t].id] = 1
           added == /\ ~IsRegistered(m_workers, op[t].path)
                    /\ IsRegistered(m_workers', op[t].path)
       IN announced <=> added]_vars

\* ------------------------------------------------------------- empty bodies
\* C18: for an event whose message is empty or holds newline characters
\* only, the stripping loop of Worker::log ends without reading or removing a
\* character of an empty string, and the worker writes one line with the
\* prefix and an empty body: no Worker::log call is at the loop with a
\* message that the loop empties, and the process is never ended there.
C18_EmptyBodySafe ==
  /\ crash # "back_of_empty"
  /\ \A t \in Threads :
       pc[t] = "log_body" => \E i \in DOMAIN line[t].msg : line[t].msg[i] # NL

\* ------------------------------------------------------------- removal
\* C19: once removeWorker(p) has returned, no event whose dispatch starts
\* afterwards is written to the sink of p until an addWorker(p) registers it
\* again: the erase loop leaves p unregistered, only the critical section of
\* an addWorker call for p registers it, a dispatch step taken while p is
\* unregistered writes nothing to its sink and leaves it unregistered, and
\* nothing but the opening of p writes to the sink of an unregistered p.
\* (Between the announcement and the erase, which are two critical sections,
\* other threads' events are still written to it: C19_Witness.)
C19_RemovalOnReturn ==
  [][\A p \in Paths :
       /\ (\E t \in Threads : Erases(t) /\ op[t].path = p) =>
            ~IsRegistered(m_workers', p)
       /\ Opens(p) =>
            \E t \in Threads : pc[t] = "add_body" /\ Moved(t) /\ op[t].path = p
       /\ \A t \in Threads :
            (InDispatch(t) /\ Moved(t) /\ ~IsRegistered(m_workers, p)) =>
              (out'[p] = out[p] /\ ~IsRegistered(m_workers', p))
       /\ out'[p] # out[p] => (IsRegistered(m_workers, p) \/ OpenAttempt(p))]_vars

\* a removeWorker call for file "a" has dispatched its announcement and not
\* yet erased the worker, and the file holds, behind that announcement, the
\* entry of an event another thread dispatched since
C19_Witness ==
  \E t, u \in Threads :
    /\ t # u
    /\ op[t].kind = "remove" /\ op[t].path = "a" /\ pc[t] \in {"rem_lock", "rem_body"}
    /\ IsRegistered(m_workers, "a")
    /\ \E i, j \in DOMAIN out["a"] :
         /\ i < j
         /\ out["a"][i].ev = op[t].id /\ out["a"][i].done
         /\ out["a"][j].ev > op[t].id /\ out["a"][j].site = "user" /\ out["a"][j].done

\* ------------------------------------------------------------- no recovery
\* the worker of identity p in ws is healthy, cout being good or not
Healthy(ws, cout, p) ==
  \E i \in DOMAIN ws :
    ws[i].path = p /\ ((p = Console /\ cout) \/ ws[i].stream = "good")

\* C20: a registered worker whose sink has become unhealthy stays in the
\* collection until a removeWorker call erases it, writes nothing, and is
\* not made healthy by any step: an addWorker call for its identity replaces
\* the threshold and leaves the stream as it is; the identity is healthy
\* again only by a step that registers it anew, which needs it to be
\* unregistered, that is, removed, first.
C20_NoRecovery ==
  [][\A p \in Paths :
       (IsRegistered(m_workers, p) /\ ~Healthy(m_workers, coutGood, p)) =>
         /\ out'[p] = out[p]
         /\ IsRegistered(m_workers', p) \/ \E t \in Threads : Erases(t) /\ op[t].path = p
         /\ ~Healthy(m_workers', coutGood', p)
         /\ \A t \in Threads : (ReAdds(t) /\ op[t].path = p) =>
              \A i \in DOMAIN m_workers : m_workers[i].path = p =>
                /\ m_workers'[i].stream = m_workers[i].stream
                /\ m_workers'[i].level = op[t].level]_vars

\* the stream of file "a" failed after registration: its worker, of threshold
\* DEBUG, is still in the collection, was passed by the dispatch of the
\* announcement of its removal without writing it, and is about to be erased
C20_Witness ==
  \E t \in Threads :
    /\ op[t].kind = "remove" /\ op[t].path = "a" /\ pc[t] = "rem_body"
    /\ \E i \in DOMAIN m_workers :
         /\ m_workers[i].path = "a" /\ m_workers[i].stream = "bad"
         /\ m_workers[i].level = DEBUG
    /\ EntriesOf(out["a"], op[t].id) = {}
    /\ \E n \in DOMAIN out["a"] : out["a"][n].ev >= 1

====
